---------------------------- MODULE Spec2Model ----------------------------
(***************************************************************************)
(* The Glide Interaction Engine of the radial menu: the polar geometry     *)
(* (src/src/core/geometry.ts), the state manager and the input controller  *)
(* (both in src/src/core/state.ts), and the host wrapper's open/close      *)
(* effect (src/unnamed/part_004).                                           *)
(*                                                                         *)
(* Representation.                                                         *)
(*  - A point is a record [x, y] of integer pixels relative to the menu    *)
(*    centre.  Only compass points (on an axis or a diagonal) are used, so *)
(*    that atan2 is an exact multiple of pi/4.                             *)
(*  - An angle that is a multiple of pi/4 is an integer count of eighths   *)
(*    of a turn (TWO_PI = 8).  An angle that is a ratio of pixels (the     *)
(*    slice gap, gap / rInner radians) is a record [num, den]; the two     *)
(*    kinds are compared through the rational PiNum / PiDen.               *)
(*  - A radius is carried as its square (rSq): the radius of a diagonal    *)
(*    point is irrational, its square is an integer, and every comparison  *)
(*    the code makes on r is made exactly on r*r.                          *)
(*  - JavaScript's undefined and NaN, which the code can store in a        *)
(*    number[], are the negative integers Undefined and NaN.               *)
(*  - Array indices are zero-based as in the source; a JavaScript array a  *)
(*    is the sequence whose element a[i] is At(a, i).                      *)
(***************************************************************************)
EXTENDS Integers, Sequences, FiniteSets, TLC

VARIABLES
    state,              \* BagelStateManager.state: [status, activePath, selection]
    listeners,          \* BagelStateManager.listeners, in subscription order
    config,             \* InputController.config
    rootItems,          \* InputController.rootItems
    holdTimer,          \* InputController.holdTimer (NoTimer for null)
    holdStartPosition,  \* InputController.holdStartPosition (NoPoint for null)
    timers,             \* the window's pending timeouts (ids armed, not yet fired or cleared)
    event,              \* the event whose handler ran last
    log,                \* what that handler did, in order: notifications, callbacks, haptic requests
    press,              \* observer: [active, glides] for the press in progress
    registered          \* the controller's pointer and keyboard handlers are registered

vars == <<state, listeners, config, rootItems, holdTimer, holdStartPosition,
          timers, event, log, press, registered>>

---------------------------------------------------------------------------
(* Bounds of the model *)

MaxTimers == 2

\* listeners subscribed to the state manager at a time (ManagerSpec)
MaxListeners == 2

\* notify() calls nested in one another before the call stack is exhausted
MaxNesting == 4

\* the largest radius and the largest item count given to the geometry (GeometrySpec)
MaxRadius == 106
MaxItems == 8

---------------------------------------------------------------------------
(* JavaScript values *)

Undefined == -2
NaN == -3

\* a remainder that does not wrap a dividend equal to the divisor
JsRem_NoWrapAtEnd(a, b) ==
    IF a = NaN \/ b = NaN \/ b = 0 THEN NaN
    ELSE IF a = b THEN a
    ELSE IF a >= 0 THEN a % b ELSE -((-a) % b)

\* a % b of JavaScript on integers (sign of the dividend), NaN for b = 0 or a = NaN
JsRem(a, b) ==
    IF a = NaN \/ b = NaN \/ b = 0 THEN NaN
    ELSE IF a >= 0 THEN a % b ELSE -((-a) % b)

\* a + b of JavaScript on numbers
JsAdd(a, b) == IF a = NaN \/ b = NaN THEN NaN ELSE a + b

\* a === b on numbers and undefined
StrictEq(a, b) == a = b /\ a # NaN

\* a[i] for a number[]: undefined outside the array
At(a, i) == IF i >= 0 /\ i < Len(a) THEN a[i + 1] ELSE Undefined

Max(a, b) == IF a >= b THEN a ELSE b

---------------------------------------------------------------------------
(* Types: src/src/types/index.ts *)

\* a RadialItem; action and onSelect say whether the callback is present
RadialItem(id, children, action, onSelect) ==
    [id |-> id, children |-> children, action |-> action, onSelect |-> onSelect]

\* the value of items[i] when there is no such item (undefined), and of a null item
NoItem == [id |-> "", children |-> <<>>, action |-> FALSE, onSelect |-> FALSE]

\* items[i] for a RadialItem[]
ItemAt(items, i) == IF i >= 0 /\ i < Len(items) THEN items[i + 1] ELSE NoItem

Point(x, y) == [x |-> x, y |-> y]
NoPoint == [null |-> TRUE]

NoTimer == 0

---------------------------------------------------------------------------
(* Geometry: src/src/core/geometry.ts *)

TWO_PI == 8
PiNum == 355
PiDen == 113

\* Math.atan2(y, x) of a compass point, in eighths of a turn, in (-4, 4]
ATan2(y, x) ==
    CASE x > 0 /\ y = 0 -> 0
      [] x > 0 /\ y > 0 -> 1
      [] x = 0 /\ y > 0 -> 2
      [] x < 0 /\ y > 0 -> 3
      [] x < 0 /\ y = 0 -> 4
      [] x < 0 /\ y < 0 -> -3
      [] x = 0 /\ y < 0 -> -2
      [] x > 0 /\ y < 0 -> -1
      [] OTHER -> 0

cartesianToPolar(x, y) ==
    LET rSq == x * x + y * y
        theta == ATan2(y, x)
    IN  [rSq |-> rSq, theta |-> IF theta < 0 THEN theta + TWO_PI ELSE theta]

\* Math.floor((r - innerRadius) / w) for r >= innerRadius >= 0, w >= 1:
\* the k with (innerRadius + k*w)^2 <= r^2 < (innerRadius + (k+1)*w)^2
\* (no radius of the model has more than MaxRadius rings below it)
FloorRings(rSq, innerRadius, w, k) ==
    CHOOSE n \in k..(k + MaxRadius) :
        /\ (innerRadius + n * w) * (innerRadius + n * w) <= rSq
        /\ rSq < (innerRadius + (n + 1) * w) * (innerRadius + (n + 1) * w)

\* r < c for a pixel count c
RadiusBelow(rSq, c) == c > 0 /\ rSq < c * c

\* a depth that ignores the dead zone
getDepth_NoDeadZone(rSq, cfg) ==
    IF RadiusBelow(rSq, cfg.innerRadius) THEN -1
    ELSE FloorRings(rSq, cfg.innerRadius, Max(1, cfg.ringWidth), 0)

getDepth(rSq, cfg) ==
    IF RadiusBelow(rSq, cfg.deadZoneRadius) THEN -1
    ELSE IF RadiusBelow(rSq, cfg.innerRadius) THEN -1
    ELSE LET safeRingWidth == Max(1, cfg.ringWidth)
         IN  FloorRings(rSq, cfg.innerRadius, safeRingWidth, 0)

\* The other getDepth of the repository (src/unnamed/part_002), which walks the
\* rings with the radial gap between them.  It takes the radius itself, an
\* integer number of pixels.
DepthCap == 100

\* The while loop.  Its pass number d (d = 0, 1, ...) starts with depth = d and
\* currentR = innerRadius + d * (safeRingWidth + gapPixels).  The pass returns d
\* when r < currentR (the loop condition fails: return depth after the loop) or
\* r < ringEnd = currentR + safeRingWidth (return depth inside it).  Otherwise
\* depth becomes d + 1, and if that exceeds DepthCap the loop breaks and d + 1
\* is returned.  As safeRingWidth >= 1, the pass returns d exactly when
\* r < ringEnd.
PassReturns(r, d, innerRadius, safeRingWidth, gapPixels) ==
    r < innerRadius + d * (safeRingWidth + gapPixels) + safeRingWidth

WalkRings(r, innerRadius, safeRingWidth, gapPixels) ==
    IF \E d \in 0..DepthCap : PassReturns(r, d, innerRadius, safeRingWidth, gapPixels)
    THEN CHOOSE d \in 0..DepthCap :
             /\ PassReturns(r, d, innerRadius, safeRingWidth, gapPixels)
             /\ \A e \in 0..(d - 1) : ~PassReturns(r, e, innerRadius, safeRingWidth, gapPixels)
    ELSE DepthCap + 1

getDepthWalk(r, cfg) ==
    IF r < cfg.deadZoneRadius THEN -1
    ELSE IF r < cfg.innerRadius THEN -1
    ELSE WalkRings(r, cfg.innerRadius, Max(1, cfg.ringWidth), cfg.gap)

\* gapAngle = 0
ZeroAngle == [num |-> 0, den |-> 1]

\* (units / itemCount) eighths of a turn < (gapAngle / 2) radians, units >= 0:
\* units * (2 pi / (8 itemCount)) < num / (2 den)
LessThanHalfGap(units, itemCount, gapAngle) ==
    units * 4 * PiNum * gapAngle.den < gapAngle.num * TWO_PI * itemCount * PiDen

\* an index computed from theta - startAngle reduced once, sign kept
getIndexFromAngle_SingleRemainder(theta, itemCount, startAngle, gapAngle) ==
    IF itemCount = 0 THEN -1
    ELSE
        LET adjustedTheta == JsRem(theta - startAngle, TWO_PI)
            index == IF adjustedTheta >= 0
                     THEN (adjustedTheta * itemCount) \div TWO_PI
                     ELSE -(((-adjustedTheta) * itemCount + TWO_PI - 1) \div TWO_PI)
            relativeTheta == adjustedTheta * itemCount - index * TWO_PI
        IN  IF \/ LessThanHalfGap(relativeTheta, itemCount, gapAngle)
               \/ LessThanHalfGap(TWO_PI - relativeTheta, itemCount, gapAngle)
            THEN -1
            ELSE JsRem(index, itemCount)

\* only the half gap at the start of the slice gives no index
getIndexFromAngle_LeadingGapOnly(theta, itemCount, startAngle, gapAngle) ==
    IF itemCount = 0 THEN -1
    ELSE
        LET adjustedTheta == JsRem(JsRem(theta - startAngle, TWO_PI) + TWO_PI, TWO_PI)
            index == (adjustedTheta * itemCount) \div TWO_PI
            relativeTheta == adjustedTheta * itemCount - index * TWO_PI
        IN  IF LessThanHalfGap(relativeTheta, itemCount, gapAngle)
            THEN -1
            ELSE JsRem(index, itemCount)

getIndexFromAngle(theta, itemCount, startAngle, gapAngle) ==
    IF itemCount = 0 THEN -1
    ELSE
        LET adjustedTheta == JsRem(JsRem(theta - startAngle, TWO_PI) + TWO_PI, TWO_PI)
            \* sliceAngle = TWO_PI / itemCount; lengths below are in units of 1 / itemCount
            index == (adjustedTheta * itemCount) \div TWO_PI
            relativeTheta == adjustedTheta * itemCount - index * TWO_PI
        IN  IF \/ LessThanHalfGap(relativeTheta, itemCount, gapAngle)
               \/ LessThanHalfGap(TWO_PI - relativeTheta, itemCount, gapAngle)
            THEN -1
            ELSE JsRem(index, itemCount)

\* a hit test that computes the index below the first ring as well
hitTest_IndexBelowFirstRing(point, cfg, itemsCount) ==
    LET polar == cartesianToPolar(point.x, point.y)
        depth == getDepth(polar.rSq, cfg)
    IN  IF itemsCount > 0
        THEN LET rInner == cfg.innerRadius + depth * cfg.ringWidth
                 gapAngle == IF cfg.gap # 0 /\ cfg.gap > 0
                             THEN [num |-> cfg.gap, den |-> rInner]
                             ELSE ZeroAngle
             IN  [depth |-> depth,
                  index |-> getIndexFromAngle(polar.theta, itemsCount,
                                              cfg.startAngle, gapAngle)]
        ELSE [depth |-> depth, index |-> -1]

hitTest(point, cfg, itemsCount) ==
    LET polar == cartesianToPolar(point.x, point.y)
    IN  IF cfg.deadZoneRadius # 0 /\ RadiusBelow(polar.rSq, cfg.deadZoneRadius)
        THEN [depth |-> -1, index |-> -1]
        ELSE
            LET depth == getDepth(polar.rSq, cfg)
            IN  IF depth < 0 THEN [depth |-> -1, index |-> -1]
                ELSE IF itemsCount > 0
                THEN LET rInner == cfg.innerRadius + depth * cfg.ringWidth
                         gapAngle == IF cfg.gap # 0 /\ cfg.gap > 0
                                     THEN [num |-> cfg.gap, den |-> rInner]
                                     ELSE ZeroAngle
                     IN  [depth |-> depth,
                          index |-> getIndexFromAngle(polar.theta, itemsCount,
                                                      cfg.startAngle, gapAngle)]
                ELSE [depth |-> depth, index |-> -1]

\* Math.sqrt of a square number of pixels
Sqrt(rSq) == CHOOSE r \in 0..rSq : r * r = rSq

\* The other hitTest of the repository (src/unnamed/part_002), over the other
\* getDepth: rInner is summed ring by ring with the gap, and the gap angle is
\* taken at the middle radius rMid = (rInner + rOuter) / 2 = (2 rInner +
\* ringWidth) / 2 of the ring.  For a point at a whole number of pixels from
\* the centre.
hitTestWalk(point, cfg, itemsCount) ==
    LET polar == cartesianToPolar(point.x, point.y)
        r == Sqrt(polar.rSq)
    IN  IF cfg.deadZoneRadius # 0 /\ r < cfg.deadZoneRadius
        THEN [depth |-> -1, index |-> -1]
        ELSE
            LET depth == getDepthWalk(r, cfg)
            IN  IF depth < 0 THEN [depth |-> -1, index |-> -1]
                ELSE IF itemsCount > 0
                THEN LET gapPixels == cfg.gap
                         rInner == cfg.innerRadius + depth * (cfg.ringWidth + gapPixels)
                         gapAngle == IF gapPixels > 0
                                     THEN [num |-> 2 * gapPixels,
                                           den |-> 2 * rInner + cfg.ringWidth]
                                     ELSE ZeroAngle
                     IN  [depth |-> depth,
                          index |-> getIndexFromAngle(polar.theta, itemsCount,
                                                      cfg.startAngle, gapAngle)]
                ELSE [depth |-> depth, index |-> -1]

---------------------------------------------------------------------------
(* State manager: src/src/core/state.ts, BagelStateManager *)

CLOSED == "CLOSED"
OPEN == "OPEN"
GLIDING == "GLIDING"

\* selection: null, or an array of indices
NullSelection == [null |-> TRUE]
Selected(path) == [null |-> FALSE, path |-> path]

InitialState == [status |-> CLOSED, activePath |-> <<>>, selection |-> NullSelection]

\* The operations below act on a record m = [state, log]: the manager's state
\* and what the running handler has done so far.

Notification(listener, s) == [kind |-> "notify", listener |-> listener, state |-> s]

notify(m) ==
    [m EXCEPT !.log = @ \o [i \in 1..Len(listeners) |-> Notification(listeners[i], m.state)]]

setStatus(m, status) ==
    IF m.state.status # status
    THEN notify([m EXCEPT !.state.status = status])
    ELSE m

\* length equal and every element === : the test of setActivePath
SamePath(a, b) ==
    /\ Len(a) = Len(b)
    /\ \A i \in 1..Len(a) : StrictEq(a[i], b[i])

setActivePath(m, path) ==
    IF SamePath(m.state.activePath, path)
    THEN m
    ELSE notify([m EXCEPT !.state.activePath = path])

setSelection(m, selection) ==
    notify([m EXCEPT !.state.selection = selection])

\* a reset that closes and clears the selection but keeps the highlighted path
reset_KeepsPath(m) ==
    notify([m EXCEPT !.state.status = CLOSED, !.state.selection = NullSelection])

reset(m) ==
    notify([m EXCEPT !.state = InitialState])

---------------------------------------------------------------------------
(* Input controller: src/src/core/state.ts, InputController *)

MOVEMENT_BUFFER == 10

Vibrate(ms) == [kind |-> "vibrate", ms |-> ms]
ActionCall(item) == [kind |-> "action", item |-> item.id]
OnSelectCall(item, pathItems) ==
    [kind |-> "onSelect", item |-> item.id,
     path |-> [i \in 1..Len(pathItems) |-> pathItems[i].id]]
Thrown == [kind |-> "throw"]

IsLeaf(item) == Len(item.children) = 0

\* the loop of resolveHit from level d on
\* a walk that reports a slice gap at level d as depth d - 1
RECURSIVE ResolveFrom_GapEndsBelow(_, _, _, _)
ResolveFrom_GapEndsBelow(point, currentItems, d, targetDepth) ==
    IF Len(currentItems) = 0
    THEN [depth |-> d - 1, index |-> -1, item |-> NoItem]
    ELSE
        LET index == hitTest(point, config, Len(currentItems)).index
        IN  IF index = -1
            THEN [depth |-> d - 1, index |-> -1, item |-> NoItem]
            ELSE
                LET item == ItemAt(currentItems, index)
                IN  IF d = targetDepth
                    THEN [depth |-> targetDepth, index |-> index, item |-> item]
                    ELSE ResolveFrom_GapEndsBelow(point, item.children, d + 1, targetDepth)

RECURSIVE ResolveFrom(_, _, _, _)
ResolveFrom(point, currentItems, d, targetDepth) ==
    IF Len(currentItems) = 0
    THEN [depth |-> d - 1, index |-> -1, item |-> NoItem]
    ELSE
        LET index == hitTest(point, config, Len(currentItems)).index
        IN  IF index = -1
            THEN [depth |-> d, index |-> -1, item |-> NoItem]
            ELSE
                LET item == ItemAt(currentItems, index)
                IN  IF d = targetDepth
                    THEN [depth |-> targetDepth, index |-> index, item |-> item]
                    ELSE ResolveFrom(point, item.children, d + 1, targetDepth)

resolveHit(point) ==
    LET targetDepth == hitTest(point, config, 0).depth
    IN  IF targetDepth = -1
        THEN [depth |-> -1, index |-> -1, item |-> NoItem]
        ELSE ResolveFrom(point, rootItems, 0, targetDepth)

\* newPath = [...activePath]; newPath[depth] = index; newPath.slice(0, depth + 1)
PathWith(activePath, depth, index) ==
    [k \in 1..(depth + 1) |-> IF k = depth + 1 THEN index ELSE At(activePath, k - 1)]

handleHitTest(m, point) ==
    LET hit == resolveHit(point)
    IN  IF hit.index # -1 /\ hit.depth # -1
        THEN
            LET finalPath == PathWith(m.state.activePath, hit.depth, hit.index)
                pathChanged == ~SamePath(finalPath, m.state.activePath)
            IN  IF pathChanged
                THEN [setActivePath(m, finalPath) EXCEPT !.log = @ \o <<Vibrate(10)>>]
                ELSE m
        ELSE IF hit.depth = -1 /\ Len(m.state.activePath) > 0
        THEN setActivePath(m, <<>>)
        ELSE m

\* the items along pathIndices, up to the first index that names no item
RECURSIVE PathItems(_, _)
PathItems(currentList, pathIndices) ==
    IF Len(pathIndices) = 0 THEN <<>>
    ELSE
        LET item == ItemAt(currentList, Head(pathIndices))
        IN  IF item = NoItem THEN <<>>
            ELSE <<item>> \o PathItems(item.children, Tail(pathIndices))

\* confirmSelection with the callbacks run before the state manager is touched
confirmSelection_CallbacksFirst(m, pathIndices) ==
    LET pathItems == PathItems(rootItems, pathIndices)
        m1 == IF Len(pathItems) = 0 THEN m
              ELSE LET lastItem == pathItems[Len(pathItems)]
                   IN  [m EXCEPT !.log =
                           @ \o (IF lastItem.action THEN <<ActionCall(lastItem)>> ELSE <<>>)
                             \o (IF lastItem.onSelect THEN <<OnSelectCall(lastItem, pathItems)>> ELSE <<>>)]
    IN  reset(setStatus(setSelection(m1, Selected(pathIndices)), CLOSED))

confirmSelection(m, pathIndices) ==
    LET pathItems == PathItems(rootItems, pathIndices)
        m1 == reset(setStatus(setSelection(m, Selected(pathIndices)), CLOSED))
    IN  IF Len(pathItems) = 0 THEN m1
        ELSE
            LET lastItem == pathItems[Len(pathItems)]
            IN  [m1 EXCEPT !.log =
                    @ \o (IF lastItem.action THEN <<ActionCall(lastItem)>> ELSE <<>>)
                      \o (IF lastItem.onSelect THEN <<OnSelectCall(lastItem, pathItems)>> ELSE <<>>)]

---------------------------------------------------------------------------
(* The handlers.  Each takes and returns a record                          *)
(* c = [state, log, holdTimer, holdStartPosition, timers]; Entry is that   *)
(* record when a handler starts.                                           *)

Entry ==
    [state |-> state, log |-> <<>>, holdTimer |-> holdTimer,
     holdStartPosition |-> holdStartPosition, timers |-> timers]

\* window.setTimeout returns an id no pending timeout has
FreshTimer == CHOOSE t \in 1..MaxTimers : t \notin timers /\ \A u \in 1..(t - 1) : u \in timers

\* Timeout ids are opaque handles: the code only passes holdTimer back to
\* clearTimeout and tests it for null.  After each handler the ids are renumbered,
\* the timeouts the controller no longer tracks first and the tracked one last,
\* so that states differing only in the numbers of the ids are one state.
Renumbered(c) ==
    LET untracked == Cardinality(c.timers \ {c.holdTimer})
    IN  [c EXCEPT !.timers = (1..untracked) \cup
                              (IF c.holdTimer \in c.timers THEN {untracked + 1} ELSE {}),
                  !.holdTimer = IF c.holdTimer = NoTimer THEN NoTimer ELSE untracked + 1]

\* window.clearTimeout(id)
clearTimeout(c, id) == [c EXCEPT !.timers = @ \ {id}]

\* a hold callback that requests the haptic pulse and leaves the status alone
holdCallback_NoGlide(c) ==
    [c EXCEPT !.log = @ \o <<Vibrate(20)>>]

\* the callback given to setTimeout in onPointerDown
holdCallback(c) ==
    [setStatus(c, GLIDING) EXCEPT !.log = @ \o <<Vibrate(20)>>]

\* onPointerDown that sets the status to OPEN whatever it was
onPointerDown_AlwaysOpens(c, point, isPrimary) ==
    IF ~isPrimary THEN c
    ELSE
        LET c1 == [c EXCEPT !.holdStartPosition = point]
            c2 == setStatus(c1, OPEN)
        IN  [c2 EXCEPT !.holdTimer = FreshTimer, !.timers = @ \cup {FreshTimer}]

onPointerDown(c, point, isPrimary) ==
    IF ~isPrimary THEN c
    ELSE
        LET c1 == [c EXCEPT !.holdStartPosition = point]
            c2 == IF c1.state.status = CLOSED THEN setStatus(c1, OPEN) ELSE c1
        IN  [c2 EXCEPT !.holdTimer = FreshTimer, !.timers = @ \cup {FreshTimer}]

DistSq(p, q) == (p.x - q.x) * (p.x - q.x) + (p.y - q.y) * (p.y - q.y)

\* onPointerMove that promotes to GLIDING already at the movement buffer
onPointerMove_AtBuffer(c, point) ==
    LET c1 == IF /\ c.holdTimer # NoTimer
                 /\ c.holdStartPosition # NoPoint
                 /\ DistSq(point, c.holdStartPosition) >= MOVEMENT_BUFFER * MOVEMENT_BUFFER
              THEN LET cleared == [clearTimeout(c, c.holdTimer) EXCEPT !.holdTimer = NoTimer]
                   IN  IF cleared.state.status # GLIDING
                       THEN setStatus(cleared, GLIDING)
                       ELSE cleared
              ELSE c
    IN  IF c1.state.status = GLIDING \/ c1.state.status = OPEN
        THEN handleHitTest(c1, point)
        ELSE c1

onPointerMove(c, point) ==
    LET c1 == IF /\ c.holdTimer # NoTimer
                 /\ c.holdStartPosition # NoPoint
                 /\ DistSq(point, c.holdStartPosition) > MOVEMENT_BUFFER * MOVEMENT_BUFFER
              THEN LET cleared == [clearTimeout(c, c.holdTimer) EXCEPT !.holdTimer = NoTimer]
                   IN  IF cleared.state.status # GLIDING
                       THEN setStatus(cleared, GLIDING)
                       ELSE cleared
              ELSE c
    IN  \* state is the manager's own object: setStatus above is seen here
        IF c1.state.status = GLIDING \/ c1.state.status = OPEN
        THEN handleHitTest(c1, point)
        ELSE c1

\* onPointerUp that leaves the menu as it is when the release resolves nothing
onPointerUp_NoClose(c, point) ==
    LET c1 == IF c.holdTimer # NoTimer
              THEN [clearTimeout(c, c.holdTimer) EXCEPT !.holdTimer = NoTimer]
              ELSE c
    IN  IF c1.state.status = GLIDING \/ c1.state.status = OPEN
        THEN
            LET hit == resolveHit(point)
                c2 == IF hit.item # NoItem /\ IsLeaf(hit.item)
                      THEN confirmSelection(c1, c1.state.activePath)
                      ELSE c1
            IN  IF c2.state.status # CLOSED THEN setStatus(c2, OPEN) ELSE c2
        ELSE c1

onPointerUp(c, point) ==
    LET c1 == IF c.holdTimer # NoTimer
              THEN [clearTimeout(c, c.holdTimer) EXCEPT !.holdTimer = NoTimer]
              ELSE c
    IN  IF c1.state.status = GLIDING \/ c1.state.status = OPEN
        THEN
            LET hit == resolveHit(point)
                c2 == IF hit.item # NoItem
                      THEN IF IsLeaf(hit.item)
                           THEN confirmSelection(c1, c1.state.activePath)
                           ELSE c1
                      ELSE IF hit.depth = -1
                           THEN reset(setStatus(c1, CLOSED))
                           ELSE c1
            IN  IF c2.state.status # CLOSED THEN setStatus(c2, OPEN) ELSE c2
        ELSE c1

\* the items of the ring at currentDepth along currentPath
RECURSIVE ItemsAtDepth(_, _, _, _)
ItemsAtDepth(itemsAtDepth, currentPath, i, currentDepth) ==
    IF i >= currentDepth THEN itemsAtDepth
    ELSE ItemsAtDepth(ItemAt(itemsAtDepth, At(currentPath, i)).children,
                      currentPath, i + 1, currentDepth)

\* onKeyDown that handles keys while the status is CLOSED too
onKeyDown_NoClosedGuard(c, key) ==
    IF key = "Escape" THEN reset(setStatus(c, CLOSED))
    ELSE
        LET currentPath == c.state.activePath
            currentDepth == IF Len(currentPath) > 0 THEN Len(currentPath) - 1 ELSE 0
            itemsAtDepth == ItemsAtDepth(rootItems, currentPath, 0, currentDepth)
            count == Len(itemsAtDepth)
            currentIndex == IF At(currentPath, currentDepth) # Undefined
                            THEN At(currentPath, currentDepth)
                            ELSE -1
        IN  CASE key = "ArrowRight" ->
                    setActivePath(c, PathWith(currentPath, currentDepth,
                                              JsRem(JsAdd(currentIndex, 1), count)))
              [] key = "ArrowLeft" ->
                    setActivePath(c, PathWith(currentPath, currentDepth,
                                              JsRem(JsAdd(JsAdd(currentIndex, -1), count), count)))
              [] key = "ArrowUp" ->
                    IF Len(currentPath) > 0
                    THEN setActivePath(c, SubSeq(currentPath, 1, Len(currentPath) - 1))
                    ELSE c
              [] key = "ArrowDown" ->
                    IF currentIndex # -1 /\ Len(ItemAt(itemsAtDepth, currentIndex).children) > 0
                    THEN setActivePath(c, Append(currentPath, 0))
                    ELSE c
              [] key = "Enter" ->
                    IF currentIndex # -1
                    THEN LET item == ItemAt(itemsAtDepth, currentIndex)
                         IN  IF item = NoItem
                             THEN [c EXCEPT !.log = @ \o <<Thrown>>]  \* item.children of undefined
                             ELSE IF IsLeaf(item)
                             THEN confirmSelection(c, currentPath)
                             ELSE c
                    ELSE c
              [] OTHER -> c

\* onKeyDown whose ArrowDown descends whether or not the focused item has children
onKeyDown_DescendsAlways(c, key) ==
    IF c.state.status = CLOSED THEN c
    ELSE IF key = "Escape" THEN reset(setStatus(c, CLOSED))
    ELSE
        LET currentPath == c.state.activePath
            currentDepth == IF Len(currentPath) > 0 THEN Len(currentPath) - 1 ELSE 0
            itemsAtDepth == ItemsAtDepth(rootItems, currentPath, 0, currentDepth)
            count == Len(itemsAtDepth)
            currentIndex == IF At(currentPath, currentDepth) # Undefined
                            THEN At(currentPath, currentDepth)
                            ELSE -1
        IN  CASE key = "ArrowRight" ->
                    setActivePath(c, PathWith(currentPath, currentDepth,
                                              JsRem(JsAdd(currentIndex, 1), count)))
              [] key = "ArrowLeft" ->
                    setActivePath(c, PathWith(currentPath, currentDepth,
                                              JsRem(JsAdd(JsAdd(currentIndex, -1), count), count)))
              [] key = "ArrowUp" ->
                    IF Len(currentPath) > 0
                    THEN setActivePath(c, SubSeq(currentPath, 1, Len(currentPath) - 1))
                    ELSE c
              [] key = "ArrowDown" ->
                    IF currentIndex # -1
                    THEN setActivePath(c, Append(currentPath, 0))
                    ELSE c
              [] key = "Enter" ->
                    IF currentIndex # -1
                    THEN LET item == ItemAt(itemsAtDepth, currentIndex)
                         IN  IF item = NoItem
                             THEN [c EXCEPT !.log = @ \o <<Thrown>>]  \* item.children of undefined
                             ELSE IF IsLeaf(item)
                             THEN confirmSelection(c, currentPath)
                             ELSE c
                    ELSE c
              [] OTHER -> c

\* onKeyDown whose Enter confirms the focused item whether or not it is a leaf
onKeyDown_EnterConfirmsBranch(c, key) ==
    IF c.state.status = CLOSED THEN c
    ELSE IF key = "Escape" THEN reset(setStatus(c, CLOSED))
    ELSE
        LET currentPath == c.state.activePath
            currentDepth == IF Len(currentPath) > 0 THEN Len(currentPath) - 1 ELSE 0
            itemsAtDepth == ItemsAtDepth(rootItems, currentPath, 0, currentDepth)
            count == Len(itemsAtDepth)
            currentIndex == IF At(currentPath, currentDepth) # Undefined
                            THEN At(currentPath, currentDepth)
                            ELSE -1
        IN  CASE key = "ArrowRight" ->
                    setActivePath(c, PathWith(currentPath, currentDepth,
                                              JsRem(JsAdd(currentIndex, 1), count)))
              [] key = "ArrowLeft" ->
                    setActivePath(c, PathWith(currentPath, currentDepth,
                                              JsRem(JsAdd(JsAdd(currentIndex, -1), count), count)))
              [] key = "ArrowUp" ->
                    IF Len(currentPath) > 0
                    THEN setActivePath(c, SubSeq(currentPath, 1, Len(currentPath) - 1))
                    ELSE c
              [] key = "ArrowDown" ->
                    IF currentIndex # -1 /\ Len(ItemAt(itemsAtDepth, currentIndex).children) > 0
                    THEN setActivePath(c, Append(currentPath, 0))
                    ELSE c
              [] key = "Enter" ->
                    IF currentIndex # -1
                    THEN LET item == ItemAt(itemsAtDepth, currentIndex)
                         IN  IF item = NoItem
                             THEN [c EXCEPT !.log = @ \o <<Thrown>>]  \* item.children of undefined
                             ELSE IF TRUE
                             THEN confirmSelection(c, currentPath)
                             ELSE c
                    ELSE c
              [] OTHER -> c

onKeyDown(c, key) ==
    IF c.state.status = CLOSED THEN c
    ELSE IF key = "Escape" THEN reset(setStatus(c, CLOSED))
    ELSE
        LET currentPath == c.state.activePath
            currentDepth == IF Len(currentPath) > 0 THEN Len(currentPath) - 1 ELSE 0
            itemsAtDepth == ItemsAtDepth(rootItems, currentPath, 0, currentDepth)
            count == Len(itemsAtDepth)
            currentIndex == IF At(currentPath, currentDepth) # Undefined
                            THEN At(currentPath, currentDepth)
                            ELSE -1
        IN  CASE key = "ArrowRight" ->
                    setActivePath(c, PathWith(currentPath, currentDepth,
                                              JsRem(JsAdd(currentIndex, 1), count)))
              [] key = "ArrowLeft" ->
                    setActivePath(c, PathWith(currentPath, currentDepth,
                                              JsRem(JsAdd(JsAdd(currentIndex, -1), count), count)))
              [] key = "ArrowUp" ->
                    IF Len(currentPath) > 0
                    THEN setActivePath(c, SubSeq(currentPath, 1, Len(currentPath) - 1))
                    ELSE c
              [] key = "ArrowDown" ->
                    IF currentIndex # -1 /\ Len(ItemAt(itemsAtDepth, currentIndex).children) > 0
                    THEN setActivePath(c, Append(currentPath, 0))
                    ELSE c
              [] key = "Enter" ->
                    IF currentIndex # -1
                    THEN LET item == ItemAt(itemsAtDepth, currentIndex)
                         IN  IF item = NoItem
                             THEN [c EXCEPT !.log = @ \o <<Thrown>>]  \* item.children of undefined
                             ELSE IF IsLeaf(item)
                             THEN confirmSelection(c, currentPath)
                             ELSE c
                    ELSE c
              [] OTHER -> c

---------------------------------------------------------------------------
(* The host wrapper's "Sync Open State" effect: src/unnamed/part_004 *)

\* a close request that sets the status and does not reset
syncOpenState_NoReset(c, isOpen) ==
    IF isOpen /\ c.state.status = CLOSED THEN setStatus(c, OPEN)
    ELSE IF ~isOpen /\ c.state.status # CLOSED THEN setStatus(c, CLOSED)
    ELSE c

syncOpenState(c, isOpen) ==
    IF isOpen /\ c.state.status = CLOSED THEN setStatus(c, OPEN)
    ELSE IF ~isOpen /\ c.state.status # CLOSED THEN reset(setStatus(c, CLOSED))
    ELSE c

---------------------------------------------------------------------------
(* Inputs *)

MenuConfig ==
    [innerRadius |-> 50, ringWidth |-> 60, gap |-> 2, startAngle |-> -2, deadZoneRadius |-> 20]

\* dead zone; ring 0; ring 0 and ring 1 exactly MOVEMENT_BUFFER apart; rings 1, 1, 2, 3
Points ==
    { Point(0, 0), Point(50, -50), Point(0, 105), Point(0, 115),
      Point(80, 80), Point(-100, 100), Point(-140, 140), Point(-180, 180) }

\* where a press starts: at the centre, and in ring 0
DownPoints == { Point(0, 0), Point(0, 105) }

Keys == {"Escape", "ArrowRight", "ArrowLeft", "ArrowUp", "ArrowDown", "Enter", "Tab"}

\* three root items; "b" has two children, of which "b1" has one
TreeCatalog ==
    << RadialItem("a", <<>>, TRUE, TRUE),
       RadialItem("b", << RadialItem("b0", <<>>, TRUE, FALSE),
                          RadialItem("b1", << RadialItem("b10", <<>>, FALSE, TRUE) >>, FALSE, FALSE) >>,
                  FALSE, FALSE),
       RadialItem("c", <<>>, FALSE, FALSE) >>

Catalogs == { TreeCatalog, <<>> }

---------------------------------------------------------------------------
(* The state machine *)

\* the observer of the press in progress: glides counts the changes of status to GLIDING
Observe(c, type) ==
    CASE type = "pointerdown" -> [active |-> TRUE, glides |-> 0]
      [] type = "pointerup" -> [active |-> FALSE, glides |-> 0]
      [] OTHER -> IF press.active /\ state.status # GLIDING /\ c.state.status = GLIDING
                  THEN [press EXCEPT !.glides = @ + 1]
                  ELSE press

Commit(c, e) ==
    /\ state' = c.state
    /\ log' = c.log
    /\ holdTimer' = Renumbered(c).holdTimer
    /\ holdStartPosition' = c.holdStartPosition
    /\ timers' = Renumbered(c).timers
    /\ event' = e
    /\ UNCHANGED <<listeners, config, rootItems, registered>>

Init ==
    /\ state = InitialState
    /\ listeners = <<"renderer">>
    /\ config = MenuConfig
    /\ rootItems \in Catalogs
    /\ holdTimer = NoTimer
    /\ holdStartPosition = NoPoint
    /\ timers = {}
    /\ event = [type |-> "construct"]
    /\ log = <<>>
    /\ press = [active |-> FALSE, glides |-> 0]
    /\ registered = TRUE

PointerDown(point) ==
    /\ Cardinality(timers) < MaxTimers
    /\ Commit(onPointerDown(Entry, point, TRUE), [type |-> "pointerdown", point |-> point])
    /\ press' = Observe(Entry, "pointerdown")

SecondaryPointerDown(point) ==
    /\ Commit(onPointerDown(Entry, point, FALSE), [type |-> "secondarydown"])
    /\ press' = press

PointerMove(point) ==
    LET c == onPointerMove(Entry, point)
    IN  /\ Commit(c, [type |-> "pointermove", point |-> point])
        /\ press' = Observe(c, "pointermove")

PointerUp(point) ==
    LET c == onPointerUp(Entry, point)
    IN  /\ Commit(c, [type |-> "pointerup", point |-> point])
        /\ press' = Observe(c, "pointerup")

KeyDown(key) ==
    LET c == onKeyDown(Entry, key)
    IN  /\ Commit(c, [type |-> "keydown", key |-> key])
        /\ press' = Observe(c, "keydown")

HoldTimerFires(t) ==
    /\ t \in timers
    /\ LET c == holdCallback([Entry EXCEPT !.timers = @ \ {t}])
       IN  /\ Commit(c, [type |-> "timer"])
           /\ press' = Observe(c, "timer")

SyncOpenState(isOpen) ==
    LET c == syncOpenState(Entry, isOpen)
    IN  /\ Commit(c, [type |-> "sync", isOpen |-> isOpen])
        /\ press' = Observe(c, "sync")

Next ==
    \/ \E point \in DownPoints : PointerDown(point)
    \/ \E point \in DownPoints : SecondaryPointerDown(point)
    \/ \E point \in Points : PointerMove(point)
    \/ \E point \in Points : PointerUp(point)
    \/ \E key \in Keys : KeyDown(key)
    \/ \E t \in 1..MaxTimers : HoldTimerFires(t)
    \/ \E isOpen \in BOOLEAN : SyncOpenState(isOpen)

Spec == Init /\ [][Next]_vars

\* a timeout that is pending is eventually run by the browser
FairSpec == Spec /\ \A t \in 1..MaxTimers : WF_vars(HoldTimerFires(t))

---------------------------------------------------------------------------
(* The life of the controller: the catalog is replaced (updateItems) and   *)
(* the controller is destroyed.  The handlers run only while registered;   *)
(* a timeout that is pending runs whether they are registered or not.      *)

\* destroy(), the part on the controller's fields; removeListeners is the
\* change of `registered`
destroy(c) ==
    IF c.holdTimer # NoTimer THEN clearTimeout(c, c.holdTimer) ELSE c

Destroy ==
    LET c == destroy(Entry)
    IN  /\ state' = c.state
        /\ log' = c.log
        /\ holdTimer' = Renumbered(c).holdTimer
        /\ holdStartPosition' = c.holdStartPosition
        /\ timers' = Renumbered(c).timers
        /\ event' = [type |-> "destroy"]
        /\ registered' = FALSE
        /\ UNCHANGED <<listeners, config, rootItems, press>>

UpdateItems(newItems) ==
    /\ registered
    /\ rootItems' = newItems
    /\ event' = [type |-> "updateItems"]
    /\ log' = <<>>
    /\ UNCHANGED <<state, listeners, config, holdTimer, holdStartPosition, timers,
                   press, registered>>

LifecycleNext ==
    \/ registered /\ \E point \in DownPoints : PointerDown(point)
    \/ registered /\ \E point \in DownPoints : SecondaryPointerDown(point)
    \/ registered /\ \E point \in Points : PointerMove(point)
    \/ registered /\ \E point \in Points : PointerUp(point)
    \/ registered /\ \E key \in Keys : KeyDown(key)
    \/ \E t \in 1..MaxTimers : HoldTimerFires(t)
    \/ registered /\ \E isOpen \in BOOLEAN : SyncOpenState(isOpen)
    \/ \E newItems \in Catalogs : UpdateItems(newItems)
    \/ Destroy

LifecycleSpec == Init /\ [][LifecycleNext]_vars

---------------------------------------------------------------------------
(* Vocabulary of the claims *)

IsOpen(s) == s.status = OPEN \/ s.status = GLIDING

\* the point resolves an item: resolveHit gives a depth >= 0 and an index
Resolves(point) == resolveHit(point).index # -1 /\ resolveHit(point).depth # -1

\* path[k], for every k, is the slice the point's angle selects among the items
\* reached through path[0..k-1]
RootOutward(path, point) ==
    \A k \in 0..(Len(path) - 1) :
        At(path, k) = hitTest(point, config, Len(ItemsAtDepth(rootItems, path, 0, k))).index

\* every entry is a non-negative integer that indexes an item of its ring
IndexesItems(path) ==
    \A k \in 0..(Len(path) - 1) :
        /\ At(path, k) >= 0
        /\ At(path, k) < Len(ItemsAtDepth(rootItems, path, 0, k))

---------------------------------------------------------------------------
(* C1: a pointer-move handled while the menu is OPEN or GLIDING that       *)
(* resolves an item at depth d writes the root-outward path of the current *)
(* point: d + 1 entries, each the slice the point's angle selects among    *)
(* the items reached through the entries before it.                        *)
C1_MoveWritesRootOutwardPath ==
    (event.type = "pointermove" /\ IsOpen(state) /\ Resolves(event.point))
        => /\ Len(state.activePath) = resolveHit(event.point).depth + 1
           /\ RootOutward(state.activePath, event.point)

(* C2: with the catalog never replaced, activePath always consists of      *)
(* non-negative integers, has no missing entry, and each entry indexes an  *)
(* existing item of the ring reached through the entries before it.        *)
C2_ActivePathIndexesItems == IndexesItems(state.activePath)

---------------------------------------------------------------------------
(* What a handler's log shows *)

IsNotice(e) == e.kind = "notify"
IsSelectionNotice(e) == e.kind = "notify" /\ ~e.state.selection.null
IsResetNotice(e) == e.kind = "notify" /\ e.state = InitialState
IsAction(e) == e.kind = "action"
IsOnSelect(e) == e.kind = "onSelect"
IsCallback(e) == IsAction(e) \/ IsOnSelect(e)

LogIndices == 1..Len(log)
Confirmed == \E i \in LogIndices : IsSelectionNotice(log[i])

\* the path the handler committed: the selection of its first selection notice
CommittedPath ==
    log[CHOOSE i \in LogIndices :
            IsSelectionNotice(log[i]) /\ \A j \in 1..(i - 1) : ~IsSelectionNotice(log[j])
       ].state.selection.path

\* the ids of a sequence of items
Ids(items) == [i \in 1..Len(items) |-> items[i].id]

---------------------------------------------------------------------------
(* Release of the pointer *)

\* the path from the root to the item the point resolves: at every level the
\* slice the point's angle selects among the children of the level before
RECURSIVE PathToward(_, _, _, _)
PathToward(point, items, d, targetDepth) ==
    LET index == hitTest(point, config, Len(items)).index
    IN  IF d = targetDepth THEN <<index>>
        ELSE <<index>> \o PathToward(point, ItemAt(items, index).children, d + 1, targetDepth)

ResolvedPath(point) == PathToward(point, rootItems, 0, resolveHit(point).depth)

\* the point is in the dead zone: its depth is -1
InDeadZone(point) == hitTest(point, config, 0).depth = -1

NoCallback(l) == \A i \in 1..Len(l) : ~IsCallback(l[i])
ActionsIn(l) == {i \in 1..Len(l) : IsAction(l[i])}

(* C4: if the last pointer-move resolved a leaf L by the path p and the    *)
(* pointer is released at that same point, then the subscribers are        *)
(* notified of the selection p, the only action invoked is that of L, once *)
(* (if L has one), and the handler returns with status CLOSED.             *)
C4_ReleaseOnLeafCommitsItsPath ==
    [][ ( /\ event.type = "pointermove"
          /\ IsOpen(state)
          /\ Resolves(event.point)
          /\ IsLeaf(resolveHit(event.point).item)
          /\ event'.type = "pointerup"
          /\ event'.point = event.point )
        => LET L == resolveHit(event.point).item
               p == ResolvedPath(event.point)
           IN  /\ \E i \in 1..Len(log') :
                      IsSelectionNotice(log'[i]) /\ log'[i].state.selection.path = p
               /\ \A i \in ActionsIn(log') : log'[i].item = L.id
               /\ Cardinality(ActionsIn(log')) = (IF L.action THEN 1 ELSE 0)
               /\ state'.status = CLOSED
      ]_vars

(* C5: a pointer-up while the status is OPEN or GLIDING, at a point        *)
(* outside the dead zone where the resolved item is a branch or no item is *)
(* resolved, leaves the status OPEN and activePath unchanged, sets no      *)
(* selection and invokes no callback.                                      *)
C5_ReleaseOffLeafStaysOpen ==
    [][ ( /\ IsOpen(state)
          /\ event'.type = "pointerup"
          /\ ~InDeadZone(event'.point)
          /\ \/ resolveHit(event'.point).item = NoItem
             \/ ~IsLeaf(resolveHit(event'.point).item) )
        => /\ state'.status = OPEN
           /\ state'.activePath = state.activePath
           /\ state'.selection = NullSelection
           /\ \A i \in 1..Len(log') : ~IsSelectionNotice(log'[i])
           /\ NoCallback(log')
      ]_vars

(* C6: a pointer-up while the status is OPEN or GLIDING, at a point in the *)
(* dead zone (depth -1), closes the menu: the handler returns with status  *)
(* CLOSED, activePath empty and selection null, no selection was notified  *)
(* and no item callback was invoked.                                       *)
C6_ReleaseInDeadZoneCloses ==
    [][ ( /\ IsOpen(state)
          /\ event'.type = "pointerup"
          /\ InDeadZone(event'.point) )
        => /\ state'.status = CLOSED
           /\ state'.activePath = <<>>
           /\ state'.selection = NullSelection
           /\ \A i \in 1..Len(log') : ~IsSelectionNotice(log'[i])
           /\ NoCallback(log')
      ]_vars

\* the pointer was released in the dead zone of an open menu that had a path
\* highlighted: the handler notified CLOSED with that path, then the reset
C6_Witness ==
    /\ event.type = "pointerup"
    /\ InDeadZone(event.point)
    /\ Len(log) = 2
    /\ log[1].state.status = CLOSED
    /\ Len(log[1].state.activePath) > 0
    /\ IsResetNotice(log[2])

---------------------------------------------------------------------------
(* The hold timer *)

\* the pointer is farther from the down-position than the movement buffer
BeyondBuffer(point, start) == DistSq(point, start) > MOVEMENT_BUFFER * MOVEMENT_BUFFER

\* the requests for the hold vibration in a handler's log
HoldVibrations(l) == {i \in 1..Len(l) : l[i] = Vibrate(20)}

(* C7: in every reachable state at most one hold timer is pending, and a   *)
(* pending timer is the one the controller tracks in holdTimer.            *)
C7_AtMostOneTimerPending ==
    /\ Cardinality(timers) <= 1
    /\ timers \subseteq {holdTimer}

\* the hold timer of the press has fired: the status is GLIDING and the handler
\* requested the hold vibration once
HoldFired ==
    /\ event.type = "timer"
    /\ state.status = GLIDING
    /\ Cardinality(HoldVibrations(log)) = 1

\* the press was ended or the menu closed: a pointer-up, a move beyond the
\* movement buffer, or status CLOSED
PressInterrupted ==
    \/ event.type = "pointerup"
    \/ event.type = "pointermove" /\ holdStartPosition # NoPoint
                                  /\ BeyondBuffer(event.point, holdStartPosition)
    \/ state.status = CLOSED

(* C8: after a primary pointer-down that leaves the status OPEN and arms   *)
(* the only pending timer, unless a move beyond the movement buffer, a     *)
(* pointer-up or a close follows, the hold timer eventually fires, the     *)
(* status is then GLIDING, and that firing requests the hold vibration     *)
(* exactly once; the hold vibration is requested by no other handler, and  *)
(* a timer that fires is no longer pending.                                *)
C8_HoldTimerPromotesToGliding ==
    /\ (event.type = "pointerdown" /\ state.status = OPEN /\ timers = {holdTimer})
           ~> (HoldFired \/ PressInterrupted)
    /\ [](Cardinality(HoldVibrations(log)) = (IF event.type = "timer" THEN 1 ELSE 0))
    /\ [][event'.type = "timer" => Cardinality(timers') = Cardinality(timers) - 1]_vars

\* the hold timer fired on an OPEN menu during a press: subscribers were told
\* GLIDING, then the vibration was requested
C8_Witness ==
    /\ event.type = "timer"
    /\ press.active
    /\ timers = {}
    /\ log = <<Notification("renderer", [state EXCEPT !.status = GLIDING]), Vibrate(20)>>
    /\ state.status = GLIDING

(* C9: within one press, from a pointer-down to its pointer-up, the status *)
(* changes to GLIDING at most once.                                        *)
C9_GlidesOncePerPress == press.active => press.glides <= 1

(* C10: with the hold timer pending and the status OPEN, a pointer-move    *)
(* farther than the movement buffer from the down-position sets the status *)
(* to GLIDING in that event and cancels the timer, which is then no longer *)
(* pending nor tracked; a move within the buffer leaves the timer pending  *)
(* and tracked and the status OPEN.                                        *)
C10_MoveBeyondBufferGlides ==
    [][ ( /\ holdTimer \in timers
          /\ holdStartPosition # NoPoint
          /\ state.status = OPEN
          /\ event'.type = "pointermove" )
        => IF BeyondBuffer(event'.point, holdStartPosition)
           THEN /\ state'.status = GLIDING
                /\ holdTimer' = NoTimer
                /\ timers' = timers \ {holdTimer}
                /\ \E i \in 1..Len(log') : IsNotice(log'[i]) /\ log'[i].state.status = GLIDING
                /\ HoldVibrations(log') = {}
           ELSE /\ state'.status = OPEN
                /\ holdTimer' = holdTimer
                /\ timers' = timers
                /\ \A i \in 1..Len(log') : IsNotice(log'[i]) => log'[i].state.status = OPEN
      ]_vars

\* a move of exactly the movement buffer has left the only timer pending with
\* the status OPEN
C10_Witness ==
    /\ event.type = "pointermove"
    /\ holdStartPosition # NoPoint
    /\ event.point # holdStartPosition
    /\ DistSq(event.point, holdStartPosition) = MOVEMENT_BUFFER * MOVEMENT_BUFFER
    /\ timers = {holdTimer}
    /\ state.status = OPEN

---------------------------------------------------------------------------
(* Closing *)

(* C11: after every pointer-up or pointer-cancel no timer armed by the     *)
(* controller is pending.                                                  *)
C11_NoTimerPendingAfterPointerUp ==
    event.type = "pointerup" => timers = {}

(* C12: an Escape key press while the status is OPEN or GLIDING closes and *)
(* resets the menu: the handler returns with status CLOSED, activePath     *)
(* empty and selection null, no selection was notified and no item         *)
(* callback was invoked.                                                   *)
C12_EscapeClosesAndResets ==
    [][ ( /\ IsOpen(state)
          /\ event'.type = "keydown"
          /\ event'.key = "Escape" )
        => /\ state'.status = CLOSED
           /\ state'.activePath = <<>>
           /\ state'.selection = NullSelection
           /\ \A i \in 1..Len(log') : ~IsSelectionNotice(log'[i])
           /\ NoCallback(log')
      ]_vars

\* Escape was pressed on an open menu with a path highlighted: the handler
\* notified CLOSED with that path, then the reset
C12_Witness ==
    /\ event.type = "keydown"
    /\ event.key = "Escape"
    /\ Len(log) = 2
    /\ log[1].state.status = CLOSED
    /\ Len(log[1].state.activePath) > 0
    /\ IsResetNotice(log[2])
    /\ state = InitialState

(* C13: whenever a handler has run to completion, status CLOSED implies    *)
(* activePath empty and selection null, the value the state has at         *)
(* construction; and the last notification of a handler that ends CLOSED   *)
(* carries exactly that value.                                             *)
C13_ClosedIsInitialState ==
    state.status = CLOSED =>
        /\ state = InitialState
        /\ Len(log) > 0 => IsResetNotice(log[Len(log)]) \/ IsCallback(log[Len(log)])

\* an external close request closed an open menu that had a path highlighted
C13_Witness ==
    /\ event.type = "sync"
    /\ ~event.isOpen
    /\ Len(log) = 2
    /\ Len(log[1].state.activePath) > 0
    /\ state = InitialState

---------------------------------------------------------------------------
(* Frame of pointer-down and of the keyboard while CLOSED *)

(* C14: a primary pointer-down sets the status to OPEN when it was CLOSED  *)
(* and leaves it unchanged otherwise, and changes neither activePath nor   *)
(* selection; a non-primary pointer-down changes nothing: state, pending   *)
(* timers, tracked timer and down-position stay, and nobody is notified.   *)
C14_PointerDownFrame ==
    [][ /\ event'.type = "pointerdown" =>
              /\ state'.status = (IF state.status = CLOSED THEN OPEN ELSE state.status)
              /\ state'.activePath = state.activePath
              /\ state'.selection = state.selection
              /\ Len(log') = (IF state.status = CLOSED THEN Len(listeners) ELSE 0)
        /\ event'.type = "secondarydown" =>
              /\ state' = state
              /\ timers' = timers
              /\ holdTimer' = holdTimer
              /\ holdStartPosition' = holdStartPosition
              /\ log' = <<>>
      ]_vars

\* a primary pointer-down while the menu was GLIDING with a path highlighted
C14_Witness ==
    /\ event.type = "pointerdown"
    /\ state.status = GLIDING
    /\ Len(state.activePath) > 0
    /\ log = <<>>

(* C15: while the status is CLOSED a key press leaves status, activePath   *)
(* and selection unchanged, notifies no subscriber and invokes no item     *)
(* callback.                                                               *)
C15_KeysIgnoredWhileClosed ==
    [][ (state.status = CLOSED /\ event'.type = "keydown")
        => /\ state' = state
           /\ log' = <<>>
      ]_vars

\* Escape was pressed while the menu was CLOSED: an Escape on an open menu
\* would have notified
C15_Witness ==
    /\ event.type = "keydown"
    /\ event.key = "Escape"
    /\ state.status = CLOSED
    /\ log = <<>>

---------------------------------------------------------------------------
(* Keyboard navigation *)

\* the items of the ring the last entry of the path indexes (the root ring for
\* the empty path): the children reached through the entries before the last
RECURSIVE FocusRing(_, _)
FocusRing(items, path) ==
    IF Len(path) <= 1 THEN items
    ELSE FocusRing(ItemAt(items, Head(path)).children, Tail(path))

\* the item the path points to, NoItem when the path is empty or names no item
FocusedItem(path) ==
    IF Len(path) = 0 THEN NoItem
    ELSE ItemAt(FocusRing(rootItems, path), path[Len(path)])

\* the path with its last entry replaced
WithLast(path, index) == [path EXCEPT ![Len(path)] = index]

IsKey(e, key) == e.type = "keydown" /\ e.key = key

\* the path after ArrowRight and then ArrowLeft
RightThenLeft ==
    onKeyDown(onKeyDown(Entry, "ArrowRight"), "ArrowLeft").state.activePath

(* C16: while the menu is open, with a non-empty activePath whose last     *)
(* entry is the index i in a ring of n >= 1 items, ArrowRight replaces the *)
(* last entry by (i + 1) mod n and ArrowLeft by (i - 1) mod n, the earlier *)
(* entries and the length staying, and ArrowRight followed by ArrowLeft    *)
(* gives the path back; with an empty path and a root ring of n >= 1 items *)
(* the result has one entry, an index in 0..n-1.                           *)
C16_ArrowsCycleTheFocusIndex ==
    /\ [][ ( /\ IsOpen(state)
              /\ (IsKey(event', "ArrowRight") \/ IsKey(event', "ArrowLeft"))
              /\ Len(FocusRing(rootItems, state.activePath)) >= 1 )
            => LET path == state.activePath
                   n == Len(FocusRing(rootItems, path))
                   step == IF event'.key = "ArrowRight" THEN 1 ELSE -1
               IN  IF Len(path) = 0
                   THEN /\ Len(state'.activePath) = 1
                        /\ state'.activePath[1] \in 0..(n - 1)
                   ELSE path[Len(path)] >= 0
                           => state'.activePath = WithLast(path, (path[Len(path)] + step) % n)
          ]_vars
    /\ []( ( /\ IsOpen(state)
              /\ Len(state.activePath) > 0
              /\ Len(FocusRing(rootItems, state.activePath)) >= 1
              /\ At(state.activePath, Len(state.activePath) - 1) >= 0 )
            => RightThenLeft = state.activePath )

\* ArrowLeft wrapped from the first root item to the last of the three
C16_Witness ==
    /\ IsKey(event, "ArrowLeft")
    /\ state.activePath = <<2>>
    /\ Len(log) = 1

\* the path after ArrowDown and then ArrowUp
DownThenUp ==
    onKeyDown(onKeyDown(Entry, "ArrowDown"), "ArrowUp").state.activePath

HasChildren(item) == item # NoItem /\ Len(item.children) >= 1

\* ArrowDown appends 0 exactly when the focused item has a child and otherwise
\* changes nothing; ArrowUp removes the last entry of a non-empty path and
\* changes nothing on an empty one; status and selection stay
ArrowDownUpStep ==
    /\ (IsOpen(state) /\ IsKey(event', "ArrowDown")) =>
           IF HasChildren(FocusedItem(state.activePath))
           THEN state' = [state EXCEPT !.activePath = Append(@, 0)]
           ELSE state' = state /\ log' = <<>>
    /\ (IsOpen(state) /\ IsKey(event', "ArrowUp")) =>
           IF Len(state.activePath) > 0
           THEN state' = [state EXCEPT !.activePath = SubSeq(@, 1, Len(@) - 1)]
           ELSE state' = state /\ log' = <<>>

(* C17, as claimed: ArrowDown appends index 0 exactly when the focused     *)
(* item has at least one child and otherwise changes nothing, ArrowUp      *)
(* removes the last entry of a non-empty activePath and changes nothing on *)
(* an empty one, and ArrowDown followed by ArrowUp restores the path.      *)
C17_DownThenUpAlwaysRestores ==
    /\ [][ArrowDownUpStep]_vars
    /\ [](IsOpen(state) => DownThenUp = state.activePath)

(* C17, amended: ArrowDown appends index 0 exactly when the focused item   *)
(* has at least one child and otherwise changes nothing, ArrowUp removes   *)
(* the last entry of a non-empty activePath and changes nothing on an      *)
(* empty one; ArrowDown followed by ArrowUp restores the path when the     *)
(* focused item has a child or the path is empty, and otherwise removes    *)
(* the last entry.                                                         *)
C17_DownThenUpRestoresAfterDescent ==
    /\ [][ArrowDownUpStep]_vars
    /\ [](IsOpen(state) =>
             DownThenUp = IF \/ HasChildren(FocusedItem(state.activePath))
                             \/ Len(state.activePath) = 0
                          THEN state.activePath
                          ELSE SubSeq(state.activePath, 1, Len(state.activePath) - 1))

\* ArrowDown descended from the branch b1 to its only child
C17_Witness ==
    /\ IsKey(event, "ArrowDown")
    /\ state.activePath = <<1, 1, 0>>
    /\ Len(log) = 1

\* the callbacks a handler's log shows, in order
Callbacks(l) == SelectSeq(l, IsCallback)

\* the callbacks of an item, as confirmSelection of the path makes them
CallbacksOf(item, path) ==
    (IF item.action THEN <<ActionCall(item)>> ELSE <<>>)
        \o (IF item.onSelect
            THEN <<OnSelectCall(item, PathItems(rootItems, path))>>
            ELSE <<>>)

(* C18: Enter while the status is OPEN or GLIDING confirms the selection   *)
(* if and only if the focused item exists and is a leaf: then the          *)
(* subscribers are notified of selection = activePath, the callbacks       *)
(* invoked are that leaf's, and the state ends reset to CLOSED; otherwise  *)
(* the state is unchanged, nobody is notified and nothing is invoked; in   *)
(* particular for a branch and for the empty path the handler does         *)
(* nothing at all.                                                         *)
C18_EnterConfirmsFocusedLeaf ==
    [][ (IsOpen(state) /\ IsKey(event', "Enter")) =>
            LET path == state.activePath
                item == FocusedItem(path)
            IN  IF item # NoItem /\ Len(item.children) = 0
                THEN /\ \E i \in 1..Len(log') : IsSelectionNotice(log'[i])
                     /\ \A i \in 1..Len(log') :
                            IsSelectionNotice(log'[i]) => log'[i].state.selection.path = path
                     /\ Callbacks(log') = CallbacksOf(item, path)
                     /\ state' = InitialState
                ELSE /\ state' = state
                     /\ \A i \in 1..Len(log') : ~IsNotice(log'[i])
                     /\ NoCallback(log')
                     /\ (item # NoItem \/ Len(path) = 0) => log' = <<>>
      ]_vars

\* Enter confirmed the leaf b0, reached with the keyboard or the pointer
C18_Witness ==
    /\ IsKey(event, "Enter")
    /\ Confirmed
    /\ CommittedPath = <<1, 0>>
    /\ Callbacks(log) = <<[kind |-> "action", item |-> "b0"]>>

---------------------------------------------------------------------------
(* Length of the path *)

\* the number of ring levels of a catalog: the length of its longest chain of
\* items from the root
RECURSIVE Levels(_)
Levels(items) ==
    IF Len(items) = 0 THEN 0
    ELSE LET below == {Levels(items[i].children) : i \in 1..Len(items)}
         IN  1 + (CHOOSE m \in below : \A k \in below : k <= m)

(* C19: activePath.length never exceeds the number of ring levels of the   *)
(* catalog tree.                                                           *)
C19_PathNoLongerThanTree == Len(state.activePath) <= Levels(rootItems)

---------------------------------------------------------------------------
(* Idempotence of the setters *)

\* the state manager as a handler finds it
Manager == [state |-> state, log |-> <<>>]

\* arrays proposed to setActivePath
ProposedPaths == { <<>>, <<0>>, <<1, 0>>, <<Undefined, 0>> }

(* C20: setStatus called with the current status and setActivePath called  *)
(* with an array element-wise equal to the current path change nothing and *)
(* notify no listener; and of two calls of setActivePath in a row with     *)
(* equal arrays the second changes nothing and notifies nobody, the first  *)
(* notifying each listener once if the array differs from the current path *)
(* and not at all if it is equal to it.                                    *)
C20_EqualValueIsNoOp ==
    /\ setStatus(Manager, state.status) = Manager
    /\ setActivePath(Manager, state.activePath) = Manager
    /\ \A path \in ProposedPaths \cup {state.activePath} :
           LET first == setActivePath(Manager, path)
           IN  /\ setActivePath(first, path) = first
               /\ Len(first.log) = (IF path = state.activePath THEN 0 ELSE Len(listeners))

(* C21: setSelection and reset are no-ops on an equal value as the other   *)
(* setters are: setSelection called with the current selection (null on a  *)
(* null selection, an element-wise equal array on an array) and reset      *)
(* called on the initial state change nothing and notify no listener.      *)
C21_SelectionAndResetNoOpOnEqualValue ==
    /\ setSelection(Manager, state.selection) = Manager
    /\ (state = InitialState => reset(Manager) = Manager)

---------------------------------------------------------------------------
(* The state manager with its listeners: subscribe, the unsubscribe handle, *)
(* and listeners that call the manager back while they are notified.       *)
(* Here the manager is a record m = [state, listeners, log].               *)

\* the renderer's listener (marks the canvas dirty) and the wrapper's (host
\* callbacks): neither calls the manager
Passive == {"renderer", "wrapper"}

\* listeners a host can subscribe that call the manager when notified:
\* "once" calls its own unsubscribe handle, "closer" calls setStatus(CLOSED),
\* "deselect" calls setSelection(null)
Reentrant == {"closer", "deselect"}
ListenerNames == Passive \cup {"once"} \cup Reentrant

\* the calls a client makes on the manager
SetterCalls ==
    {[op |-> "setStatus", status |-> st] : st \in {CLOSED, OPEN, GLIDING}}
    \cup {[op |-> "setActivePath", path |-> path] : path \in {<<>>, <<0>>}}
    \cup {[op |-> "setSelection", selection |-> sel] : sel \in {NullSelection, Selected(<<0>>)}}
    \cup {[op |-> "reset"]}

\* what JavaScript throws when calls nest beyond the stack
RangeError == [kind |-> "throw", error |-> "RangeError"]
Overflowed(m) == Len(m.log) > 0 /\ m.log[Len(m.log)] = RangeError

\* Set.prototype.add keeps the insertion order and ignores a member
subscribe(m, listener) ==
    IF \E i \in 1..Len(m.listeners) : m.listeners[i] = listener
    THEN m
    ELSE [m EXCEPT !.listeners = Append(@, listener)]

\* the handle subscribe returns: Set.prototype.delete
unsubscribe(m, listener) ==
    [m EXCEPT !.listeners = SelectSeq(@, LAMBDA l : l # listener)]

RECURSIVE forEach_NewestFirst(_, _, _)
RECURSIVE forEach(_, _, _)
RECURSIVE Setter(_, _, _)
RECURSIVE Listener(_, _, _)

\* a notification that visits the listeners from the last subscribed to the first
forEach_NewestFirst(m, pending, depth) ==
    IF pending = <<>> THEN m
    ELSE LET l == pending[Len(pending)]
             rest == SubSeq(pending, 1, Len(pending) - 1)
         IN  IF \A i \in 1..Len(m.listeners) : m.listeners[i] # l
             THEN forEach_NewestFirst(m, rest, depth)
             ELSE LET told == [m EXCEPT !.log = Append(@, Notification(l, m.state))]
                      after == Listener(told, l, depth)
                  IN  IF Overflowed(after) THEN after
                      ELSE forEach_NewestFirst(after, rest, depth)

\* notify(): Set.prototype.forEach visits the members in insertion order, skips
\* one deleted before its turn, and passes this.state as it is at each visit;
\* an exception in a listener ends the visit
forEach(m, pending, depth) ==
    IF pending = <<>> THEN m
    ELSE LET l == Head(pending)
         IN  IF \A i \in 1..Len(m.listeners) : m.listeners[i] # l
             THEN forEach(m, Tail(pending), depth)
             ELSE LET told == [m EXCEPT !.log = Append(@, Notification(l, m.state))]
                      after == Listener(told, l, depth)
                  IN  IF Overflowed(after) THEN after
                      ELSE forEach(after, Tail(pending), depth)

\* the four setters, called at nesting depth `depth`
Setter(m, call, depth) ==
    LET changes ==
            CASE call.op = "setStatus" -> m.state.status # call.status
              [] call.op = "setActivePath" -> ~SamePath(m.state.activePath, call.path)
              [] call.op = "setSelection" -> TRUE
              [] call.op = "reset" -> TRUE
        next ==
            CASE call.op = "setStatus" -> [m.state EXCEPT !.status = call.status]
              [] call.op = "setActivePath" -> [m.state EXCEPT !.activePath = call.path]
              [] call.op = "setSelection" -> [m.state EXCEPT !.selection = call.selection]
              [] call.op = "reset" -> InitialState
    IN  IF ~changes THEN m
        ELSE IF depth > MaxNesting THEN [m EXCEPT !.log = Append(@, RangeError)]
        ELSE forEach([m EXCEPT !.state = next], m.listeners, depth)

\* the body of a listener, run with the manager as the notification finds it
Listener(m, l, depth) ==
    CASE l = "once" -> unsubscribe(m, l)
      [] l = "closer" -> Setter(m, [op |-> "setStatus", status |-> CLOSED], depth + 1)
      [] l = "deselect" ->
            Setter(m, [op |-> "setSelection", selection |-> NullSelection], depth + 1)
      [] OTHER -> m

ManagerEntry == [state |-> state, listeners |-> listeners, log |-> <<>>]

ManagerCommit(m, e) ==
    /\ state' = m.state
    /\ listeners' = m.listeners
    /\ log' = m.log
    /\ event' = e
    /\ UNCHANGED <<config, rootItems, holdTimer, holdStartPosition, timers, press, registered>>

ManagerInit ==
    /\ state = InitialState
    /\ listeners = <<>>
    /\ config = MenuConfig
    /\ rootItems = TreeCatalog
    /\ holdTimer = NoTimer
    /\ holdStartPosition = NoPoint
    /\ timers = {}
    /\ event = [type |-> "construct"]
    /\ log = <<>>
    /\ press = [active |-> FALSE, glides |-> 0]
    /\ registered = TRUE

Subscribe(l) ==
    /\ Len(subscribe(ManagerEntry, l).listeners) <= MaxListeners
    /\ ManagerCommit(subscribe(ManagerEntry, l), [type |-> "subscribe", listener |-> l])

Unsubscribe(l) ==
    /\ l \in ListenerNames
    /\ ManagerCommit(unsubscribe(ManagerEntry, l), [type |-> "unsubscribe", listener |-> l])

Call(call) ==
    /\ call \in SetterCalls
    /\ ManagerCommit(Setter(ManagerEntry, call, 1), [type |-> "call", call |-> call])

ManagerNext ==
    \/ \E l \in ListenerNames : Subscribe(l)
    \/ \E l \in ListenerNames : Unsubscribe(l)
    \/ \E call \in SetterCalls : Call(call)

ManagerSpec == ManagerInit /\ [][ManagerNext]_vars

\* the listeners of a sequence, and the notifications a log holds for one
Subscribed(ls) == {ls[i] : i \in 1..Len(ls)}
NoticesTo(l, lg) == {i \in 1..Len(lg) : lg[i].kind = "notify" /\ lg[i].listener = l}
Completed(lg) == \A i \in 1..Len(lg) : lg[i] # RangeError

\* l1 is notified for the first time before l2 is
FirstNoticeBefore(l1, l2, lg) ==
    \E i \in NoticesTo(l1, lg) : \A j \in NoticesTo(l2, lg) : i < j

(* C22: a call of a setter that changes the state notifies every listener  *)
(* subscribed at that moment exactly once, before the call returns and in  *)
(* the order of subscription, each notification carrying the new state; a  *)
(* listener that is not subscribed any more (its handle was called before  *)
(* the change, or during its own notification) is not notified again.      *)
(* Where a listener calls a setter back, every listener is notified once   *)
(* per change: all listeners receive the same number of notifications, the *)
(* first ones in subscription order.                                       *)
C22_EachChangeNotifiesEachListenerOnce ==
    [][ /\ event'.type = "subscribe" =>
              /\ log' = <<>> /\ state' = state
              /\ listeners' = IF event'.listener \in Subscribed(listeners)
                              THEN listeners
                              ELSE listeners \o <<event'.listener>>
        /\ event'.type = "unsubscribe" =>
              /\ log' = <<>> /\ state' = state
              /\ event'.listener \notin Subscribed(listeners')
        /\ event'.type = "call" =>
              \* only subscribed listeners are notified
              /\ \A i \in 1..Len(log') :
                     log'[i].kind = "notify" => log'[i].listener \in Subscribed(listeners)
              \* a listener that unsubscribes when notified is notified once, never again
              /\ Cardinality(NoticesTo("once", log')) <= 1
              /\ NoticesTo("once", log') # {} => "once" \notin Subscribed(listeners')
              \* no listener calls back: one notification each, in order, with the new state
              /\ (state' # state /\ Subscribed(listeners) \cap Reentrant = {}) =>
                     log' = [i \in 1..Len(listeners) |-> Notification(listeners[i], state')]
              \* listeners call back and the chain completes
              /\ (state' # state /\ Completed(log')) =>
                     \A i, j \in 1..Len(listeners') :
                         LET l1 == listeners'[i]
                             l2 == listeners'[j]
                         IN  /\ NoticesTo(l1, log') # {}
                             /\ Cardinality(NoticesTo(l1, log')) = Cardinality(NoticesTo(l2, log'))
                             /\ i < j => FirstNoticeBefore(l1, l2, log')
      ]_vars

\* a change with two listeners subscribed, the wrapper before the renderer
C22_Witness ==
    /\ event.type = "call"
    /\ listeners = <<"wrapper", "renderer">>
    /\ Len(log) = 2
    /\ log[1].listener = "wrapper" /\ log[2].listener = "renderer"

\* the last notification a log holds for a listener
LastNoticeTo(l, lg) ==
    lg[CHOOSE i \in NoticesTo(l, lg) : \A j \in NoticesTo(l, lg) : j <= i]

(* C23: when a listener calls a setter while it is notified, the nested    *)
(* notification runs inside the outer one and the chain ends as soon as    *)
(* the nested calls propose the value the state already has (every         *)
(* listener here proposes one fixed value, so its second call at the       *)
(* latest does); and the last notification each subscribed listener        *)
(* receives carries the state the chain ends in.                           *)
C23_NestedNotificationTerminates ==
    [][ event'.type = "call" =>
            /\ Completed(log')
            /\ \A l \in Subscribed(listeners') :
                   NoticesTo(l, log') # {} => LastNoticeTo(l, log').state = state'
      ]_vars

---------------------------------------------------------------------------
(* Destroying the controller and replacing the catalog *)

(* C24: when destroy() returns, no hold timer armed by the controller is   *)
(* pending and none of its handlers is registered; and once it is          *)
(* destroyed no step changes the state of the menu, whatever events came   *)
(* before.                                                                 *)
C24_NothingRunsAfterDestroy ==
    [][ /\ event'.type = "destroy" => (timers' = {} /\ ~registered')
        /\ ~registered => state' = state
      ]_vars

(* C25: whatever catalog updateItems installed between the events, a       *)
(* pointer-move, a pointer-up and a key press (arrows, Enter included)     *)
(* complete without an exception, also when activePath indexes items that  *)
(* no longer exist or the focused ring is empty.                           *)
C25_NoHandlerThrowsOnReplacedCatalog ==
    [][ event'.type \in {"pointermove", "pointerup", "keydown"} =>
            \A i \in 1..Len(log') : log'[i] # Thrown
      ]_vars

---------------------------------------------------------------------------
(* Path resolution *)

\* the points resolved: those of the pointer events, and two on a slice
\* boundary of the root ring (ring 0 and ring 1)
ResolvePoints == Points \cup { Point(0, -80), Point(0, -115) }

\* the index the point's angle selects among the items of a ring
LevelIndex(point, items) == hitTest(point, config, Len(items)).index

\* the ring of level d on the walk from the root along the point's angle; empty
\* below a level that resolves no index
RECURSIVE RingAt(_, _, _)
RingAt(point, items, d) ==
    IF d = 0 THEN items
    ELSE IF Len(items) = 0 \/ LevelIndex(point, items) = -1 THEN <<>>
    ELSE RingAt(point, ItemAt(items, LevelIndex(point, items)).children, d - 1)

\* the levels up to the target depth that resolve no index
StopLevels(point, targetDepth) ==
    {d \in 0..targetDepth :
        \/ Len(RingAt(point, rootItems, d)) = 0
        \/ LevelIndex(point, RingAt(point, rootItems, d)) = -1}

Least(S) == CHOOSE k \in S : \A d \in S : k <= d

\* what resolveHit returns when every level resolves
ResolvedAt(point, targetDepth) ==
    LET ring == RingAt(point, rootItems, targetDepth)
    IN  [depth |-> targetDepth, index |-> LevelIndex(point, ring),
         item |-> ItemAt(ring, LevelIndex(point, ring))]

Unresolved(depth) == [depth |-> depth, index |-> -1, item |-> NoItem]

\* the points whose resolution a state is examined for: every point when the
\* controller is constructed (the resolution depends on the point, the
\* configuration and the catalog only), then the point of each move and release
PointsResolved ==
    CASE event.type = "construct" -> ResolvePoints
      [] event.type \in {"pointermove", "pointerup"} -> {event.point}
      [] OTHER -> {}

(* C26, as claimed: resolution walks the levels 0..targetDepth from the    *)
(* root; at the first level where no index resolves, be it that the angle  *)
(* is in a slice gap or that the ring is empty (the catalog is empty, or   *)
(* the item resolved one level up has no children), it stops and returns   *)
(* index -1 with the depth of the last level that resolved.                *)
C26_StopsAtLastResolvedLevel ==
    \A point \in PointsResolved :
        LET targetDepth == hitTest(point, config, 0).depth
            stops == StopLevels(point, targetDepth)
            hit == resolveHit(point)
        IN  IF targetDepth = -1 THEN hit = Unresolved(-1)
            ELSE IF stops = {} THEN hit = ResolvedAt(point, targetDepth)
            ELSE hit = Unresolved(Least(stops) - 1)

(* C26, amended: as above for an empty ring (index -1 and the depth of the *)
(* level above, the last that resolved; no item); in a slice gap at level  *)
(* d the result is index -1 with depth d itself, the level of the gap.     *)
C26_StopsAtGapLevelOrAboveEmptyRing ==
    \A point \in PointsResolved :
        LET targetDepth == hitTest(point, config, 0).depth
            stops == StopLevels(point, targetDepth)
            hit == resolveHit(point)
        IN  IF targetDepth = -1 THEN hit = Unresolved(-1)
            ELSE IF stops = {} THEN hit = ResolvedAt(point, targetDepth)
            ELSE IF Len(RingAt(point, rootItems, Least(stops))) = 0
            THEN hit = Unresolved(Least(stops) - 1)
            ELSE hit = Unresolved(Least(stops))

\* a move resolved: into a slice gap of ring 1 below a branch; or beyond the
\* rings of a leaf
C26_Witness ==
    /\ event.type = "pointermove"
    /\ rootItems = TreeCatalog
    /\ IsOpen(state)
    /\ event.point = Point(0, 115)
    /\ resolveHit(event.point) = Unresolved(1)
    /\ resolveHit(Point(-180, 180)) = Unresolved(2)
    /\ resolveHit(Point(0, -80)) = Unresolved(0)

---------------------------------------------------------------------------
(* The geometry functions on their own: each behaviour is one call, with   *)
(* its arguments drawn in the initial state and its result put in the log. *)

DepthConfigs ==
    {[innerRadius |-> i, ringWidth |-> w, gap |-> g, startAngle |-> -2, deadZoneRadius |-> z] :
        i \in {0, 2}, w \in {0, 1, 3}, g \in {-1, 0, 2}, z \in {0, 4}}

\* angles in eighths of a turn, from half a turn below zero to a turn and a half
Thetas == (-4)..12

\* a quarter of a turn in radians (pi / 2): the slice angle of four items
QuarterTurn == [num |-> PiNum, den |-> 2 * PiDen]

\* no slice gap; the gap of 2 px at radius 50; a gap of a radian; a gap of
\* a quarter of a turn
GapAngles == {ZeroAngle, [num |-> 2, den |-> 50], [num |-> 1, den |-> 1], QuarterTurn}

\* points at a whole number of pixels from the centre: 0, 1, 3, 5 and 10
HitPoints ==
    {Point(0, 0), Point(0, 1), Point(3, 0), Point(0, -3), Point(3, 4), Point(-3, -4),
     Point(-4, 3), Point(-6, -8)}

\* the items of the ring that is hit: none, three or four
ItemCounts == {0, 3, 4}

GeometryCalls ==
    {[type |-> "getDepth", r |-> r, config |-> cfg] : r \in 0..MaxRadius, cfg \in DepthConfigs}
    \cup {[type |-> "getIndexFromAngle", theta |-> theta, itemCount |-> n,
           startAngle |-> a, gapAngle |-> g] :
              theta \in Thetas, n \in 0..MaxItems, a \in {-2, 3}, g \in GapAngles}
    \cup {[type |-> "hitTest", point |-> p, config |-> cfg, itemsCount |-> n] :
              p \in HitPoints, cfg \in DepthConfigs, n \in ItemCounts}

GeometryInit ==
    /\ state = InitialState
    /\ listeners = <<"renderer">>
    /\ config = MenuConfig
    /\ rootItems = TreeCatalog
    /\ holdTimer = NoTimer
    /\ holdStartPosition = NoPoint
    /\ timers = {}
    /\ event \in GeometryCalls
    /\ log = <<>>
    /\ press = [active |-> FALSE, glides |-> 0]
    /\ registered = TRUE

\* the result of the call: of getDepth, by geometry.ts and by part_002
Returned(e) ==
    IF e.type = "getDepth"
    THEN [kind |-> "depth", depth |-> getDepth(e.r * e.r, e.config),
          walked |-> getDepthWalk(e.r, e.config)]
    ELSE IF e.type = "getIndexFromAngle"
    THEN [kind |-> "index",
          index |-> getIndexFromAngle(e.theta, e.itemCount, e.startAngle, e.gapAngle)]
    ELSE [kind |-> "hit", hit |-> hitTest(e.point, e.config, e.itemsCount),
          walked |-> hitTestWalk(e.point, e.config, e.itemsCount)]

GetDepth ==
    /\ event.type = "getDepth"
    /\ log = <<>>
    /\ log' = <<Returned(event)>>
    /\ UNCHANGED <<state, listeners, config, rootItems, holdTimer, holdStartPosition,
                   timers, event, press, registered>>

GetIndexFromAngle ==
    /\ event.type = "getIndexFromAngle"
    /\ log = <<>>
    /\ log' = <<Returned(event)>>
    /\ UNCHANGED <<state, listeners, config, rootItems, holdTimer, holdStartPosition,
                   timers, event, press, registered>>

HitTest ==
    /\ event.type = "hitTest"
    /\ log = <<>>
    /\ log' = <<Returned(event)>>
    /\ UNCHANGED <<state, listeners, config, rootItems, holdTimer, holdStartPosition,
                   timers, event, press, registered>>

GeometryNext == GetDepth \/ GetIndexFromAngle \/ HitTest

GeometrySpec == GeometryInit /\ [][GeometryNext]_vars

\* a call of getDepth has returned
DepthReturned == event.type = "getDepth" /\ log # <<>>

\* where ring d starts when the rings are ringWidth wide and gap apart
RingStart(cfg, d) == cfg.innerRadius + d * (cfg.ringWidth + cfg.gap)
InBand(r, cfg, d) == RingStart(cfg, d) <= r /\ r < RingStart(cfg, d) + cfg.ringWidth

(* C27: for every gap >= 0 (and ringWidth >= 1) a result d >= 0 of         *)
(* getDepth means that the radius is inside the band of ring d, the rings  *)
(* starting at innerRadius and each ringWidth + gap after the one before:  *)
(* a radius in the radial gap between two rings gets no ring.  (Results    *)
(* up to the depth cap; the cap is C28.)                                   *)
C27_DepthOnlyInsideTheBand ==
    (DepthReturned /\ event.config.gap >= 0 /\ event.config.ringWidth >= 1) =>
        /\ log[1].depth \in 0..DepthCap => InBand(event.r, event.config, log[1].depth)
        /\ log[1].walked \in 0..DepthCap => InBand(event.r, event.config, log[1].walked)

(* C28: getDepth never returns more than the depth cap, whatever the       *)
(* radius and the configuration (a radius far beyond ring 100, a negative  *)
(* gap under which the rings do not advance).                              *)
C28_DepthAtMostTheCap ==
    DepthReturned => (log[1].depth <= DepthCap /\ log[1].walked <= DepthCap)

\* r = innerRadius + k * ringWidth + e with 0 <= e < ringWidth
InRing(r, cfg, k) ==
    \E e \in 0..(cfg.ringWidth - 1) : r = cfg.innerRadius + k * cfg.ringWidth + e

BelowTheRings(r, cfg) == r < cfg.deadZoneRadius \/ r < cfg.innerRadius

IndexReturned == event.type = "getIndexFromAngle" /\ log # <<>>

\* m slice angles of a ring of n items are a whole number of eighths of a turn
WholeSlices(m, n) == (m * TWO_PI) % n = 0

(* C30: getIndexFromAngle returns -1 for itemCount = 0, and otherwise -1   *)
(* or an index in 0..itemCount-1; with gapAngle = 0 it never returns -1,   *)
(* the angle startAngle maps to index 0, and an angle larger by one slice  *)
(* angle (by m slice angles, wherever m slice angles are a whole number of *)
(* eighths of a turn: m = 1 for 1, 2, 4 and 8 items) has the index larger  *)
(* by 1 (by m) modulo itemCount.                                           *)
C30_IndexFromAngle ==
    IndexReturned =>
        LET n == event.itemCount
            index == log[1].index
        IN  /\ n = 0 => index = -1
            /\ n > 0 => (index = -1 \/ index \in 0..(n - 1))
            /\ (n > 0 /\ event.gapAngle = ZeroAngle) =>
                   /\ index # -1
                   /\ event.theta = event.startAngle => index = 0
                   /\ \A m \in 1..n :
                          WholeSlices(m, n) =>
                              getIndexFromAngle(event.theta + (m * TWO_PI) \div n, n,
                                                event.startAngle, ZeroAngle)
                                  = (index + m) % n

\* the last of four slices, from which one slice angle more wraps to index 0
C30_Witness ==
    /\ IndexReturned
    /\ event.itemCount = 4 /\ event.gapAngle = ZeroAngle
    /\ event.startAngle = -2 /\ event.theta = 4
    /\ log[1].index = 3
    /\ getIndexFromAngle(event.theta + 2, 4, -2, ZeroAngle) = 0

\* the gap angle less the slice angle of n items, as a sign: gapAngle - 2 pi / n
GapOverSlice(n, gapAngle) == gapAngle.num * n * PiDen - 2 * PiNum * gapAngle.den

\* the slice of n that holds the angle theta, counted from startAngle
SliceOf(theta, n, startAngle) ==
    CHOOSE k \in 0..(n - 1) :
        k * TWO_PI <= ((theta - startAngle) % TWO_PI) * n
            /\ ((theta - startAngle) % TWO_PI) * n < (k + 1) * TWO_PI

\* the offset of theta from the start of its slice, in units of 1 / n eighths
OffsetInSlice(theta, n, startAngle) ==
    ((theta - startAngle) % TWO_PI) * n - SliceOf(theta, n, startAngle) * TWO_PI

\* a call of getIndexFromAngle with items and a positive gap has returned
GapIndexReturned == IndexReturned /\ event.itemCount > 0 /\ event.gapAngle.num > 0

(* C31 as stated: with gapAngle > 0, getIndexFromAngle returns -1 for      *)
(* every angle when gapAngle >= sliceAngle.                                *)
C31_GapOfASliceOrMoreGivesNoIndex ==
    (GapIndexReturned /\ GapOverSlice(event.itemCount, event.gapAngle) >= 0)
        => log[1].index = -1

(* C31: with gapAngle > 0, getIndexFromAngle returns -1 for every angle    *)
(* whose offset from the start of its slice is less than gapAngle / 2 or   *)
(* greater than sliceAngle - gapAngle / 2, and the slice's index for every *)
(* other angle; when gapAngle > sliceAngle every angle yields -1, and when *)
(* gapAngle = sliceAngle every angle but the middle of a slice does.       *)
C31_GapBandGivesNoIndex ==
    GapIndexReturned =>
        LET n == event.itemCount
            gapAngle == event.gapAngle
            offset == OffsetInSlice(event.theta, n, event.startAngle)
            index == log[1].index
        IN  /\ index = IF \/ LessThanHalfGap(offset, n, gapAngle)
                          \/ LessThanHalfGap(TWO_PI - offset, n, gapAngle)
                       THEN -1
                       ELSE SliceOf(event.theta, n, event.startAngle)
            /\ GapOverSlice(n, gapAngle) > 0 => index = -1
            /\ GapOverSlice(n, gapAngle) = 0 => (index = -1 <=> 2 * offset # TWO_PI)

\* the middle of the third of four slices, with a gap of one slice angle
C31_Witness ==
    /\ GapIndexReturned
    /\ event.itemCount = 4 /\ event.gapAngle = QuarterTurn
    /\ event.startAngle = -2 /\ event.theta = 3
    /\ log[1].index = 2

\* a call of hitTest has returned
HitReturned == event.type = "hitTest" /\ log # <<>>

\* the point of the call is inside the dead zone or inside innerRadius
BelowFirstRing ==
    LET r == Sqrt(event.point.x * event.point.x + event.point.y * event.point.y)
    IN  r < event.config.deadZoneRadius \/ r < event.config.innerRadius

(* C32: hitTest returns depth -1 and index -1 for every point inside the   *)
(* dead zone or inside innerRadius, whatever the angle and itemsCount; it  *)
(* returns index -1 whenever itemsCount = 0; for every other point its     *)
(* depth is getDepth of the point's radius (in both versions of hitTest,   *)
(* each over its own getDepth).                                            *)
C32_HitTestDepthAndNoIndex ==
    HitReturned =>
        LET r == Sqrt(event.point.x * event.point.x + event.point.y * event.point.y)
            hit == log[1].hit
            walked == log[1].walked
        IN  /\ BelowFirstRing =>
                   /\ hit.depth = -1 /\ hit.index = -1
                   /\ walked.depth = -1 /\ walked.index = -1
            /\ event.itemsCount = 0 => (hit.index = -1 /\ walked.index = -1)
            /\ ~BelowFirstRing =>
                   /\ hit.depth = getDepth(r * r, event.config)
                   /\ walked.depth = getDepthWalk(r, event.config)

\* a point at radius 3 inside a dead zone of 4, where rings of width 1 from
\* the centre would give a depth, hit for a ring of four items
C32_Witness ==
    /\ HitReturned
    /\ event.point = Point(0, -3) /\ event.itemsCount = 4
    /\ event.config.deadZoneRadius = 4 /\ event.config.innerRadius = 0
    /\ event.config.ringWidth = 1
    /\ getDepthWalk(3, [event.config EXCEPT !.deadZoneRadius = 0]) >= 0
    /\ log[1].hit = [depth |-> -1, index |-> -1]
    /\ log[1].walked = [depth |-> -1, index |-> -1]

\* the handler that has just run closed the menu: the Escape key or an
\* external close request, on a menu that was not CLOSED (both notify)
ClosedByEscapeOrRequest ==
    /\ IsKey(event, "Escape") \/ (event.type = "sync" /\ ~event.isOpen)
    /\ log # <<>>
    /\ state.status = CLOSED

\* the handler that runs in this step is a primary pointer-down or an
\* external open request
Reopening == event'.type = "pointerdown" \/ (event'.type = "sync" /\ event'.isOpen)

(* C33: once the menu has been closed by Escape or by an external close    *)
(* request, status stays CLOSED until the next primary pointer-down or     *)
(* external open request: the handler that runs next (a hold timer armed   *)
(* before the close, a pointer-move of the pointer still held) does not    *)
(* move the status out of CLOSED.                                          *)
C33_ClosedUntilReopened ==
    [][(ClosedByEscapeOrRequest /\ state'.status # CLOSED) => Reopening]_vars

(* C34: status = GLIDING implies that a primary pointer-down has occurred  *)
(* with no pointer-up or pointer-cancel after it; so after a pointer-up    *)
(* handler returns, status is OPEN or CLOSED and stays so until the next   *)
(* pointer-down.                                                           *)
C34_GlidingOnlyWhilePressed == state.status = GLIDING => press.active

\* the log's callbacks of one kind are those of the item: one if the item
\* has the callback, none otherwise, and none of another item
CallbacksAreOf(item, l, kind) ==
    LET calls == {i \in 1..Len(l) : l[i].kind = kind}
    IN  /\ \A i \in calls : l[i].item = item.id
        /\ Cardinality(calls) = (IF item[kind] THEN 1 ELSE 0)

(* C35: whenever a pointer-up closes the menu through confirmation, the    *)
(* callbacks invoked are those of the leaf resolved at the release point:  *)
(* the leaf's action and onSelect, each once if the leaf has it, and no    *)
(* callback of another item.                                               *)
C35_ReleaseInvokesTheResolvedLeaf ==
    (event.type = "pointerup" /\ Confirmed) =>
        LET leaf == resolveHit(event.point).item
        IN  /\ CallbacksAreOf(leaf, log, "action")
            /\ CallbacksAreOf(leaf, log, "onSelect")

\* the notifications of a non-null selection that the handler sent to a listener
SelectionNoticesTo(listener) ==
    {i \in LogIndices : IsSelectionNotice(log[i]) /\ log[i].listener = listener}

(* C36: each confirmed selection produces exactly one notification to each *)
(* subscriber whose state carries a non-null selection (so a handler that  *)
(* reacts to state.selection runs once per confirmation), and in that      *)
(* notification selection is element-wise equal to activePath.             *)
C36_OneSelectionNoticePerConfirmation ==
    Confirmed =>
        \A k \in 1..Len(listeners) :
            /\ Cardinality(SelectionNoticesTo(listeners[k])) = 1
            /\ \A i \in SelectionNoticesTo(listeners[k]) :
                   SamePath(log[i].state.selection.path, log[i].state.activePath)

\* the notifications a handler's log shows
Notices(l) == {i \in 1..Len(l) : IsNotice(l[i])}

\* the point is outside the dead zone and the first ring's inner radius, and
\* no item resolves there: a slice gap, or a ring the tree does not provide
NothingResolvesAt(point) ==
    hitTest(point, config, 0).depth >= 0 /\ resolveHit(point).index = -1

\* this step is a pointer-move, made while the status is OPEN or GLIDING
MoveWhileOpen == IsOpen(state) /\ event'.type = "pointermove"

(* C37: while the status is OPEN or GLIDING, a pointer-move to a dead-zone *)
(* point empties activePath, and a pointer-move to a point at depth >= 0   *)
(* where no index resolves (a slice gap, or beyond the rings the tree      *)
(* provides) leaves activePath unchanged; in both cases selection is       *)
(* unchanged.                                                              *)
C37_MoveOffTheItemsKeepsOrEmptiesPath ==
    [][ ( /\ MoveWhileOpen
          /\ InDeadZone(event'.point) \/ NothingResolvesAt(event'.point) )
        => /\ InDeadZone(event'.point) => state'.activePath = <<>>
           /\ NothingResolvesAt(event'.point) => state'.activePath = state.activePath
           /\ state'.selection = state.selection
      ]_vars

\* the number of notifications of activePath in the log of this step's
\* handler, a pointer-move: all but the one of a change of status
PathNotices ==
    Cardinality(Notices(log')) - (IF state'.status # state.status THEN 1 ELSE 0)

\* the haptic requests of a path change in the log of this step's handler
PathVibrations == {i \in 1..Len(log') : log'[i] = Vibrate(10)}

\* the path handleHitTest resolves at the point of this step's move is
\* element-wise equal to the current activePath
ResolvesTheCurrentPath ==
    LET hit == resolveHit(event'.point)
    IN  /\ hit.index # -1 /\ hit.depth # -1
        /\ PathWith(state.activePath, hit.depth, hit.index) = state.activePath

(* C38: a pointer-move while the status is OPEN or GLIDING issues at most  *)
(* one notification of activePath and at most one haptic request, and none *)
(* of either when the resolved path is element-wise equal to the current   *)
(* activePath; a pointer-move while the status is CLOSED and no press is   *)
(* in progress changes nothing and notifies nobody.                        *)
C38_MoveNotifiesPathAtMostOnce ==
    [][ event'.type = "pointermove"
        => /\ IsOpen(state) =>
                  /\ PathNotices <= 1
                  /\ Cardinality(PathVibrations) <= 1
                  /\ ResolvesTheCurrentPath =>
                         /\ PathNotices = 0 /\ PathVibrations = {}
                         /\ state'.activePath = state.activePath
           /\ (state.status = CLOSED /\ ~press.active) =>
                  /\ state' = state /\ log' = <<>>
                  /\ holdTimer' = holdTimer /\ timers' = timers
                  /\ holdStartPosition' = holdStartPosition
      ]_vars

===========================================================================
